---------------------------- MODULE Spec2Model ----------------------------
(***************************************************************************)
(* devmoji-log: src/src/main.rs (main) and src/src/commit.rs (Commit).     *)
(*                                                                         *)
(* A string is a sequence of tokens.  A token is either one character that *)
(* the code or the parser looks at (space, line feed, carriage return,     *)
(* parentheses, colon, bang, hyphen) or a run of other characters that is  *)
(* never split ("fix", "text", ...).  An emoji glyph is a token named by   *)
(* the code points of the string the source holds ("26A1 FE0F").           *)
(***************************************************************************)
EXTENDS Integers, Sequences, FiniteSets, TLC

VARIABLES
    pc,         \* position in main / Commit::format
    commits,    \* main.rs:29  the Vec<Commit> returned by last_n_commits
    i,          \* main.rs:42  position of the for loop (1-based)
    out,        \* the println! calls made so far, in order
    exit,       \* "running", "ok" (Ok(())) or "error" (Err / non-zero exit)
    extra,      \* shortcodes the linked registry knows beyond RegistryBase
    colorize,   \* whether the colored crate emits escape sequences
    cc,         \* commit.rs:100 result of ConventionalCommit::parse
    emoji,      \* commit.rs:113 the string format_emoji returned
    formatted,  \* commit.rs:97  the local `formatted`
    result      \* the Result<String> Commit::format returned

vars == <<pc, commits, i, out, exit, extra, colorize, cc, emoji, formatted, result>>

----------------------------------------------------------------------------
(* Bounds *)

MaxCommits == 2
MaxBodyLines == 2

----------------------------------------------------------------------------
(* Characters *)

SP == " "
LF == "\n"
CR == "\r"

\* char::is_whitespace, as str::trim uses it
IsWhite(t) == t \in {SP, LF, CR}

RECURSIVE TrimStart(_)
TrimStart(s) ==
    IF s # <<>> /\ IsWhite(Head(s)) THEN TrimStart(Tail(s)) ELSE s

RECURSIVE TrimEnd(_)
TrimEnd(s) ==
    IF s # <<>> /\ IsWhite(s[Len(s)]) THEN TrimEnd(SubSeq(s, 1, Len(s) - 1)) ELSE s

\* str::trim
Trim(s) == TrimEnd(TrimStart(s))

\* The index of the first line feed of s, or Len(s) + 1
FirstLF(s) ==
    IF \E k \in 1..Len(s) : s[k] = LF
    THEN CHOOSE k \in 1..Len(s) : s[k] = LF /\ \A j \in 1..(k - 1) : s[j] # LF
    ELSE Len(s) + 1

\* str::lines().next().unwrap_or_default(): the text before the first line
\* feed, without the carriage return that directly precedes that line feed
FirstLine(s) ==
    LET k == FirstLF(s) IN
    IF k <= Len(s) /\ k > 1 /\ s[k - 1] = CR
    THEN SubSeq(s, 1, k - 2)
    ELSE SubSeq(s, 1, k - 1)

\* The first index j >= from with s[j] in stop, or Len(s) + 1
RunEnd(s, from, stop) ==
    IF \E k \in from..Len(s) : s[k] \in stop
    THEN CHOOSE k \in from..Len(s) :
            s[k] \in stop /\ \A j \in from..(k - 1) : s[j] \notin stop
    ELSE Len(s) + 1

\* The first index j >= from with s[j] # t, or Len(s) + 1
SkipAll(s, from, t) ==
    IF \E k \in from..Len(s) : s[k] # t
    THEN CHOOSE k \in from..Len(s) : s[k] # t /\ \A j \in from..(k - 1) : s[j] = t
    ELSE Len(s) + 1

\* str::split(':').filter(|s| !s.is_empty()), as the set of segments
RECURSIVE Segments(_)
Segments(s) ==
    LET k == RunEnd(s, 1, {":"})
        seg == SubSeq(s, 1, k - 1)
        here == IF seg = <<>> THEN {} ELSE {seg}
    IN IF k > Len(s) THEN here ELSE here \cup Segments(SubSeq(s, k + 1, Len(s)))

RECURSIVE JoinWith(_, _)
JoinWith(parts, sep) ==
    IF parts = <<>> THEN <<>>
    ELSE IF Len(parts) = 1 THEN <<parts[1]>>
    ELSE <<parts[1]>> \o sep \o JoinWith(Tail(parts), sep)

Range(s) == {s[k] : k \in 1..Len(s)}


----------------------------------------------------------------------------
(* Lookup tables *)

NoGlyph == ""

\* commit_emoji: the static key -> glyph table.  A key is a string; only the
\* one-token strings below are keys.
CommitEmoji(key) ==
    LET k == IF Len(key) = 1 THEN key[1] ELSE "" IN
    CASE k = "add" -> "2795"
      [] k = "android" -> "1F916"
      [] k = "breaking" -> "1F4A5"
      [] k \in {"build", "deps", "dep", "dependencies"} -> "1F4E6"
      [] k \in {"chore", "maintenance"} -> "1F527"
      [] k \in {"ci", "cd"} -> "1F477"
      [] k = "config" -> "2699 FE0F"
      [] k \in {"doc", "docs", "documentation"} -> "1F4DA"
      [] k = "docker" -> "1F433"
      [] k \in {"feat", "feature"} -> "2728"
      [] k = "fix" -> "1F41B"
      [] k \in {"i18n", "l10n"} -> "1F310"
      [] k \in {"kubernetes", "k8s"} -> "2638 FE0F"
      [] k \in {"lint", "linter"} -> "1F6A8"
      [] k = "linux" -> "1F427"
      [] k \in {"macos", "ios"} -> "1F34E"
      [] k = "merge" -> "1F500"
      [] k \in {"perf", "performance"} -> "26A1 FE0F"
      [] k \in {"ref", "refactor"} -> "267B FE0F"
      [] k = "release" -> "1F680"
      [] k = "remove" -> "2796"
      [] k = "revert" -> "23EA"
      [] k = "security" -> "1F512"
      [] k = "style" -> "1F3A8"
      [] k \in {"test", "tests"} -> "2705"
      [] k \in {"typo", "typos"} -> "270F FE0F"
      [] k \in {"ui", "ux"} -> "1F484"
      [] k = "windows" -> "1F3C1"
      [] k = "wip" -> "1F6A7"
      [] OTHER -> NoGlyph

\* The shortcodes of the emojis crate that strings of this model can spell,
\* each with the glyph string the crate holds for it (the fully-qualified
\* form of the emoji: U+26A1 for zap, without a variation selector).
RegistryBase(code) ==
    CASE code = <<"boom">> -> "1F4A5"
      [] code = <<"bug">> -> "1F41B"
      [] code = <<"zap">> -> "26A1"
      [] code = <<"sparkles">> -> "2728"
      [] code = <<"e", "-", "mail">> -> "1F4E7"
      [] OTHER -> NoGlyph

\* Combined "{type}-{scope}" codes that the linked registry may or may not
\* hold: commit.rs:73 is written for a registry that resolves some of them,
\* and `extra` leaves open which.
ExtraCodes == {<<"feat", "-", "docs">>}

ExtraGlyph == "1F4D1"

\* emojis::get_by_shortcode
GetByShortcode(code, ex) ==
    IF RegistryBase(code) # NoGlyph THEN RegistryBase(code)
    ELSE IF code \in ex THEN ExtraGlyph
    ELSE NoGlyph

----------------------------------------------------------------------------
(* git_conventional::Commit::parse, as Commit::format uses it *)

NoScope == <<>>

NotConventional ==
    [ok |-> FALSE, type |-> <<>>, scope |-> NoScope, breaking |-> FALSE,
     description |-> <<>>]

\* Length of the line ending at s[k]: "\n" (1), "\r\n" (2), or 0 for none
LineEnding(s, k) ==
    IF k <= Len(s) /\ s[k] = LF THEN 1
    ELSE IF k + 1 <= Len(s) /\ s[k] = CR /\ s[k + 1] = LF THEN 2
    ELSE 0

\* The lines of s, split at line feeds
RECURSIVE LinesOf(_)
LinesOf(s) ==
    IF s = <<>> THEN <<>>
    ELSE LET k == FirstLF(s) IN
         <<SubSeq(s, 1, k - 1)>> \o
            (IF k >= Len(s) THEN <<>> ELSE LinesOf(SubSeq(s, k + 1, Len(s))))

\* A line that opens a footer: token, ": ", value
IsFooterStart(line) ==
    LET l == TrimEnd(line) IN
    /\ Len(l) >= 4
    /\ l[1] \notin {SP, LF, CR, "(", ")", ":", "!"}
    /\ l[2] = ":"
    /\ l[3] = SP

\* Whether the text after the summary holds a BREAKING CHANGE footer: the
\* footers begin at the first footer line that is first or follows a blank
\* line, and every footer line from there on opens a footer.
FooterBreaking(region) ==
    LET ls == LinesOf(region) IN
    \E j \in 1..Len(ls) : \E k \in j..Len(ls) :
        /\ IsFooterStart(ls[j])
        /\ (j = 1 \/ Trim(ls[j - 1]) = <<>>)
        /\ IsFooterStart(ls[k])
        /\ ls[k][1] = "BREAKING CHANGE"

TypeStop == {LF, CR, "(", ")", ":", "!", SP}

ScopeStop == {LF, CR, "(", ")"}

\* <summary> ::= <type>, ["(", <scope>, ")"], ["!"], ":", <whitespace>*, <description>
\* <message> ::= <summary>, [<newline>, [<newline>+, <body>, <footer>*]]
Parse(msg) ==
    LET n == Len(msg)
        tEnd == RunEnd(msg, 1, TypeStop)
        hasParen == tEnd <= n /\ msg[tEnd] = "("
        sEnd == RunEnd(msg, tEnd + 1, ScopeStop)
        scopeOk == hasParen => (sEnd > tEnd + 1 /\ sEnd <= n /\ msg[sEnd] = ")")
        afterScope == IF hasParen THEN sEnd + 1 ELSE tEnd
        bang == afterScope <= n /\ msg[afterScope] = "!"
        colonAt == IF bang THEN afterScope + 1 ELSE afterScope
        hasColon == colonAt <= n /\ msg[colonAt] = ":"
        dStart == SkipAll(msg, colonAt + 1, SP)
        dEnd == RunEnd(msg, dStart, {LF, CR})
        e1 == LineEnding(msg, dEnd)
        e2 == LineEnding(msg, dEnd + e1)
        restOk == \/ dEnd > n
                  \/ e1 > 0 /\ (dEnd + e1 > n \/ e2 > 0)
        region == SubSeq(msg, dEnd + e1 + e2, n)
    IN IF tEnd > 1 /\ scopeOk /\ hasColon /\ dEnd > dStart /\ restOk
       THEN [ok |-> TRUE,
             type |-> SubSeq(msg, 1, tEnd - 1),
             scope |-> IF hasParen THEN SubSeq(msg, tEnd + 1, sEnd - 1) ELSE NoScope,
             breaking |-> bang \/ FooterBreaking(region),
             description |-> SubSeq(msg, dStart, dEnd - 1)]
       ELSE NotConventional

----------------------------------------------------------------------------
(* Commit::format_emoji *)

GlyphSet(g) == IF g = NoGlyph THEN {} ELSE {g}

\* commit.rs:62-64 with the insert left out
BreakingPartDropped(breaking, ex) == {}

\* commit.rs:62-64
BreakingPart(breaking, ex) ==
    IF breaking THEN GlyphSet(GetByShortcode(<<"boom">>, ex)) ELSE {}

\* commit.rs:66-68
TypePart(type) == GlyphSet(CommitEmoji(type))

\* commit.rs:70-79 with `if let` in place of `else if let`: both lookups add
ScopePartBoth(type, scope, ex) ==
    IF scope = NoScope THEN {}
    ELSE GlyphSet(GetByShortcode(type \o <<"-">> \o scope, ex))
            \cup GlyphSet(CommitEmoji(scope))

\* commit.rs:70-79
ScopePart(type, scope, ex) ==
    IF scope = NoScope THEN {}
    ELSE IF GetByShortcode(type \o <<"-">> \o scope, ex) # NoGlyph
         THEN {GetByShortcode(type \o <<"-">> \o scope, ex)}
         ELSE GlyphSet(CommitEmoji(scope))

\* commit.rs:107-111
OtherOf(description) ==
    IF ":" \in Range(description) THEN description ELSE <<>>

\* commit.rs:82-89
OtherPart(other, ex) ==
    UNION {GlyphSet(GetByShortcode(code, ex)) : code \in Segments(other)}

\* The HashSet<String> after all inserts
EmojiSet(type, scope, other, breaking, ex) ==
    BreakingPart(breaking, ex) \cup TypePart(type)
        \cup ScopePart(type, scope, ex) \cup OtherPart(other, ex)

\* Every sequence that lists the members of S once each
Orders(S) ==
    {q \in [1..Cardinality(S) -> S] : \A a, b \in 1..Cardinality(S) : a # b => q[a] # q[b]}

\* commit.rs:91  emojis.into_iter().collect::<Vec<_>>().join(" "): a HashSet
\* built by HashSet::new() iterates in the order of its own hasher's keys,
\* which differ from one HashSet::new() to the next, so every order of the
\* members is a possible outcome of a call.
FormatEmoji(type, scope, other, breaking, ex) ==
    {JoinWith(q, <<SP>>) : q \in Orders(EmojiSet(type, scope, other, breaking, ex))}

----------------------------------------------------------------------------
(* Commit::format *)

BoldOn == "ESC[1m"
BlueOn == "ESC[34m"
Reset == "ESC[0m"

\* colored: "...".bold()
Bold(s, col) == IF col THEN <<BoldOn>> \o s \o <<Reset>> ELSE s

\* colored re-opens the outer style after every reset inside the text
RECURSIVE ReopenBlue(_)
ReopenBlue(s) ==
    IF s = <<>> THEN <<>>
    ELSE IF Head(s) = Reset THEN <<Reset, BlueOn>> \o ReopenBlue(Tail(s))
    ELSE <<Head(s)>> \o ReopenBlue(Tail(s))

\* colored: "...".blue()
Blue(s, col) == IF col THEN <<BlueOn>> \o ReopenBlue(s) \o <<Reset>> ELSE s

\* commit.rs:116-124
HeaderOf(c, col) ==
    c.type
        \o (IF c.scope # NoScope THEN <<"(">> \o Bold(c.scope, col) \o <<")">> ELSE <<>>)
        \o (IF c.breaking THEN <<"!">> ELSE <<>>)

\* commit.rs:126 with `text` where `description` belongs
ComposeWholeText(text, c, em, col) ==
    IF em # <<>>
    THEN Blue(HeaderOf(c, col) \o <<":">>, col) \o <<SP>> \o em \o <<SP>> \o text
    ELSE text

\* commit.rs:115-127 without the test of line 115
ComposeAlways(text, c, em, col) ==
    Blue(HeaderOf(c, col) \o <<":">>, col) \o <<SP>> \o em \o <<SP>> \o c.description

\* commit.rs:115-127, reached when the parse succeeded: the value of
\* `formatted` afterwards
ComposeText(text, c, em, col) ==
    IF em # <<>>
    THEN Blue(HeaderOf(c, col) \o <<":">>, col) \o <<SP>> \o em \o <<SP>> \o c.description
    ELSE text

\* SpanPrinter::span_to_string of the rounded span, one opaque token
SpanText == "1 hour"

\* commit.rs:138  format!(" ({} ago)", ...)
TimeSuffix == <<SP, "(", SpanText, SP, "ago)">>

\* The suffix put after the first line instead of after the whole text
AppendSuffixToFirstLine(f) == FirstLine(f) \o TimeSuffix

\* commit.rs:138  formatted.push_str(...)
AppendSuffix(f) == f \o TimeSuffix

\* commit.rs:140  formatted.trim().lines().next().unwrap_or_default()
FinishLine(f) == FirstLine(Trim(f))

NoResult == [state |-> "none", line |-> <<>>]

self == commits[i]

\* commit.rs:96-111
FmtParse ==
    /\ pc = "fmt_parse"
    /\ formatted' = self.message
    /\ cc' = Parse(self.message)
    /\ emoji' = <<>>
    /\ result' = NoResult
    /\ pc' = IF cc'.ok THEN "fmt_emoji" ELSE "fmt_span"
    /\ UNCHANGED <<commits, i, out, exit, extra, colorize>>

\* commit.rs:113 (58-92)
FmtEmoji ==
    /\ pc = "fmt_emoji"
    /\ emoji' \in FormatEmoji(cc.type, cc.scope, OtherOf(cc.description), cc.breaking, extra)
    /\ pc' = "fmt_compose"
    /\ UNCHANGED <<commits, i, out, exit, extra, colorize, cc, formatted, result>>

\* commit.rs:115-127
FmtCompose ==
    /\ pc = "fmt_compose"
    /\ formatted' = ComposeText(formatted, cc, emoji, colorize)
    /\ pc' = "fmt_span"
    /\ UNCHANGED <<commits, i, out, exit, extra, colorize, cc, emoji, result>>

\* commit.rs:131-138, the rounding succeeds
FmtSpanOk ==
    /\ pc = "fmt_span"
    /\ self.spanOk
    /\ formatted' = AppendSuffix(formatted)
    /\ pc' = "fmt_finish"
    /\ UNCHANGED <<commits, i, out, exit, extra, colorize, cc, emoji, result>>

\* commit.rs:131-136, the rounding fails and `?` returns the error
FmtSpanErr ==
    /\ pc = "fmt_span"
    /\ ~self.spanOk
    /\ result' = [state |-> "err", line |-> <<>>]
    /\ pc' = "fmt_ret"
    /\ UNCHANGED <<commits, i, out, exit, extra, colorize, cc, emoji, formatted>>

\* commit.rs:140
FmtFinish ==
    /\ pc = "fmt_finish"
    /\ result' = [state |-> "ok", line |-> FinishLine(formatted)]
    /\ pc' = "fmt_ret"
    /\ UNCHANGED <<commits, i, out, exit, extra, colorize, cc, emoji, formatted>>

----------------------------------------------------------------------------
(* Inputs *)

Body(k) == JoinWith([j \in 1..k |-> "body"], <<LF>>)

BreakingFooter == <<"BREAKING CHANGE", ":", SP, "text">>

Heads ==
    { <<"fix">>,
      <<"perf">>,
      <<"breaking">>,
      <<"zzz">>,
      <<"feat", "(", "feature", ")">>,
      <<"feat", "(", "docs", ")">>,
      <<"e", "(", "mail", ")">>,
      <<"zzz", "(", "api", ")">>,
      <<"fix", "(">>,
      <<"Merge", SP, "pull">> }

Bangs == { <<>>, <<"!">> }

Descriptions ==
    { <<"text">>,
      <<"bug">>,
      <<"text", SP, ":", "bug", ":">>,
      <<":", "zap", ":">>,
      <<"text", ":", SP, "more">> }

Breaks == { <<LF>>, <<LF, LF>>, <<SP, LF, LF>>, <<CR, LF, CR, LF>> }

Tails ==
    { <<>>, <<LF>>, <<SP>> }
        \cup { b \o Body(k) : b \in Breaks, k \in 1..MaxBodyLines }
        \cup { <<LF, LF>> \o Body(k) \o <<LF, LF>> \o BreakingFooter : k \in 1..MaxBodyLines }
        \cup { <<LF, LF>> \o BreakingFooter, <<LF, LF>> \o Body(1) \o <<LF>> \o BreakingFooter }

Leads == { <<SP>>, <<SP, LF>>, <<CR, LF>> }

\* The messages Commit::format is applied to
Messages ==
    { h \o b \o <<":", SP>> \o d \o t : h \in Heads, b \in Bangs, d \in Descriptions, t \in Tails }
        \cup { l \o h \o <<":", SP, "text">> \o t : l \in Leads, h \in Heads, t \in {<<>>, <<LF>>} }
        \cup { <<>>, <<SP>>, <<SP, LF>>, <<"fix", ":", "text">>, <<"fix", ":", SP>>, <<"fix">> }

\* The messages of the commits main reads
MainMessages ==
    { <<"fix", "!", ":", SP, "text">>,
      <<"feat", "(", "docs", ")", ":", SP, "text", LF, LF, "body">>,
      <<"Merge", SP, "pull">>,
      <<"zzz", ":", SP, "text">> }

CommitOf(k, m, ok) == [id |-> k, message |-> m, spanOk |-> ok]

----------------------------------------------------------------------------
(* main *)

Heading == [kind |-> "heading", id |-> 0, text |-> <<"  ## Recent Activity">>]

Blank == [kind |-> "blank", id |-> 0, text |-> <<>>]

\* main.rs:43  println!("  * {} {}", c.id(), line)
Bullet(c, line) == [kind |-> "bullet", id |-> c.id, text |-> line]

Init ==
    /\ pc = "main_start"
    /\ commits = <<>>
    /\ i = 0
    /\ out = <<>>
    /\ exit = "running"
    /\ extra \in SUBSET ExtraCodes
    /\ colorize \in BOOLEAN
    /\ cc = NotConventional
    /\ emoji = <<>>
    /\ formatted = <<>>
    /\ result = NoResult

\* main.rs:29  Commit::last_n_commits returns the commits, newest first
LastNCommits ==
    /\ pc = "main_start"
    /\ \E n \in 0..MaxCommits :
         \E ms \in [1..n -> MainMessages] : \E oks \in [1..n -> BOOLEAN] :
            commits' = [k \in 1..n |-> CommitOf(k, ms[k], oks[k])]
    /\ pc' = "main_check"
    /\ UNCHANGED <<i, out, exit, extra, colorize, cc, emoji, formatted, result>>

\* main.rs:29  last_n_commits fails (current_dir) and `?` returns the error
LastNCommitsErr ==
    /\ pc = "main_start"
    /\ exit' = "error"
    /\ pc' = "done"
    /\ UNCHANGED <<commits, i, out, extra, colorize, cc, emoji, formatted, result>>

\* main.rs:31, 49  no commits: nothing is printed
MainEmpty ==
    /\ pc = "main_check"
    /\ Len(commits) = 0
    /\ exit' = "ok"
    /\ pc' = "done"
    /\ UNCHANGED <<commits, i, out, extra, colorize, cc, emoji, formatted, result>>

\* The heading with a blank line before it as well
PrintHeadingLed ==
    /\ pc = "main_check"
    /\ Len(commits) # 0
    /\ out' = out \o <<Blank, Heading, Blank>>
    /\ i' = 1
    /\ pc' = "main_loop"
    /\ UNCHANGED <<commits, exit, extra, colorize, cc, emoji, formatted, result>>

\* main.rs:31-40
PrintHeading ==
    /\ pc = "main_check"
    /\ Len(commits) # 0
    /\ out' = out \o <<Heading, Blank>>
    /\ i' = 1
    /\ pc' = "main_loop"
    /\ UNCHANGED <<commits, exit, extra, colorize, cc, emoji, formatted, result>>

\* main.rs:42-43  the next commit of the loop: c.format(&now, &printer)
LoopCall ==
    /\ pc = "main_loop"
    /\ i <= Len(commits)
    /\ pc' = "fmt_parse"
    /\ UNCHANGED <<commits, i, out, exit, extra, colorize, cc, emoji, formatted, result>>

\* A failed format skipped: the loop goes on with the next commit
MainSkip ==
    /\ pc = "fmt_ret"
    /\ result.state = "err"
    /\ i' = i + 1
    /\ pc' = "main_loop"
    /\ UNCHANGED <<commits, out, exit, extra, colorize, cc, emoji, formatted, result>>

\* main.rs:43  format returned Err: `?` returns it from main
MainPropagate ==
    /\ pc = "fmt_ret"
    /\ result.state = "err"
    /\ exit' = "error"
    /\ pc' = "done"
    /\ UNCHANGED <<commits, i, out, extra, colorize, cc, emoji, formatted, result>>

\* main.rs:43  format returned Ok: the bullet line is printed
MainPrint ==
    /\ pc = "fmt_ret"
    /\ result.state = "ok"
    /\ out' = Append(out, Bullet(self, result.line))
    /\ i' = i + 1
    /\ pc' = "main_loop"
    /\ UNCHANGED <<commits, exit, extra, colorize, cc, emoji, formatted, result>>

\* main.rs:46-49  after the loop
MainEnd ==
    /\ pc = "main_loop"
    /\ i > Len(commits)
    /\ out' = Append(out, Blank)
    /\ exit' = "ok"
    /\ pc' = "done"
    /\ UNCHANGED <<commits, i, extra, colorize, cc, emoji, formatted, result>>

Next ==
    \/ LastNCommits
    \/ LastNCommitsErr
    \/ MainEmpty
    \/ PrintHeading
    \/ LoopCall
    \/ FmtParse
    \/ FmtEmoji
    \/ FmtCompose
    \/ FmtSpanOk
    \/ FmtSpanErr
    \/ FmtFinish
    \/ MainPropagate
    \/ MainPrint
    \/ MainEnd

\* The program
Spec == Init /\ [][Next]_vars

\* One call of Commit::format on a commit of any message
InitFormat ==
    /\ pc = "fmt_parse"
    /\ \E m \in Messages : \E ok \in BOOLEAN : commits = <<CommitOf(1, m, ok)>>
    /\ i = 1
    /\ out = <<>>
    /\ exit = "running"
    /\ extra \in SUBSET ExtraCodes
    /\ colorize \in BOOLEAN
    /\ cc = NotConventional
    /\ emoji = <<>>
    /\ formatted = <<>>
    /\ result = NoResult

NextFormat ==
    \/ FmtParse
    \/ FmtEmoji
    \/ FmtCompose
    \/ FmtSpanOk
    \/ FmtSpanErr
    \/ FmtFinish

SpecFormat == InitFormat /\ [][NextFormat]_vars

----------------------------------------------------------------------------
(* Properties *)

EndsWith(s, t) ==
    Len(s) >= Len(t) /\ SubSeq(s, Len(s) - Len(t) + 1, Len(s)) = t

StartsWith(s, t) ==
    Len(s) >= Len(t) /\ SubSeq(s, 1, Len(t)) = t

\* The emoji a glyph string renders: the string without the variation
\* selector U+FE0F, which changes no glyph of the table.
Rendered(g) ==
    CASE g = "2699 FE0F" -> "2699"
      [] g = "2638 FE0F" -> "2638"
      [] g = "26A1 FE0F" -> "26A1"
      [] g = "267B FE0F" -> "267B"
      [] g = "270F FE0F" -> "270F"
      [] OTHER -> g

\* The glyphs of the string format_emoji returned
GlyphsOf(em) == Range(em) \ {SP}

\* The commit was not annotated: the parse failed or no glyph was resolved
RawFallback == ~cc.ok \/ emoji = <<>>

\* The line ends with the "({span} ago)" of the time suffix
HasSuffix(line) == EndsWith(line, Tail(TimeSuffix))

\* C1: before the time suffix is appended, the composed text is the raw
\* message whenever the parse failed or the resolver returned the empty
\* string (which it does exactly when no step resolved a glyph); a header is
\* synthesized only when the parse succeeded and a glyph was resolved.
C1_RawFallback ==
    pc = "fmt_span" =>
        /\ (~cc.ok \/ emoji = <<>>) => formatted = self.message
        /\ (cc.ok /\ emoji # <<>>) =>
              /\ formatted # self.message
              /\ StartsWith(formatted, Blue(HeaderOf(cc, colorize) \o <<":">>, colorize))
        /\ cc.ok =>
              (emoji = <<>> <=>
                  /\ CommitEmoji(cc.type) = NoGlyph
                  /\ ScopePart(cc.type, cc.scope, extra) = {}
                  /\ OtherPart(OtherOf(cc.description), extra) = {}
                  /\ ~cc.breaking)

C1_Witness ==
    /\ pc = "fmt_span"
    /\ cc.ok
    /\ cc.type = <<"zzz">>
    /\ emoji = <<>>
    /\ formatted = self.message
    /\ LF \in Range(self.message)

\* C2: when the combined key "{type}-{scope}" resolves in the registry, the
\* static-table glyph of the scope is in the result only if another step
\* put it there; when the combined key misses, the static-table glyph of a
\* known scope is in the result.
C2_CombinedOverGeneric ==
    (pc = "fmt_compose" /\ cc.scope # NoScope) =>
        LET combined == GetByShortcode(cc.type \o <<"-">> \o cc.scope, extra)
            generic == CommitEmoji(cc.scope)
        IN IF combined # NoGlyph
           THEN /\ combined \in GlyphsOf(emoji)
                /\ (generic # NoGlyph /\ generic \in GlyphsOf(emoji)) =>
                      generic \in BreakingPart(cc.breaking, extra) \cup TypePart(cc.type)
                          \cup {combined} \cup OtherPart(OtherOf(cc.description), extra)
           ELSE generic # NoGlyph => generic \in GlyphsOf(emoji)

C2_Witness ==
    /\ pc = "fmt_compose"
    /\ cc.type = <<"feat">>
    /\ cc.scope = <<"docs">>
    /\ GetByShortcode(<<"feat", "-", "docs">>, extra) # NoGlyph
    /\ CommitEmoji(cc.scope) # NoGlyph
    /\ CommitEmoji(cc.scope) \notin GlyphsOf(emoji)
    /\ GetByShortcode(<<"feat", "-", "docs">>, extra) \in GlyphsOf(emoji)

\* C3: two calls of Commit::format in one run on commits with the same
\* message and the same span outcome print the same text.
C3_SameInputSameOutput ==
    \A a, b \in 1..Len(out) :
        (/\ out[a].kind = "bullet"
         /\ out[b].kind = "bullet"
         /\ commits[out[a].id].message = commits[out[b].id].message)
            => out[a].text = out[b].text

\* C4, as claimed: a raw-fallback message with a line break after its first
\* line never shows the time suffix in the returned line.
C4_SuffixNeverAfterLineBreak ==
    (pc = "fmt_ret" /\ result.state = "ok" /\ RawFallback /\ LF \in Range(self.message))
        => ~HasSuffix(result.line)

\* C4, amended: a raw-fallback message loses the time suffix exactly when it
\* has a line feed after its first non-whitespace character; line feeds in
\* its leading whitespace are trimmed before the first line is taken.
C4_SuffixLostAfterText ==
    (pc = "fmt_ret" /\ result.state = "ok" /\ RawFallback) =>
        (LF \in Range(TrimStart(self.message)) <=> ~HasSuffix(result.line))

C4_Witness ==
    /\ pc = "fmt_ret"
    /\ result.state = "ok"
    /\ ~cc.ok
    /\ Len(self.message) > 1
    /\ FirstLF(self.message) = Len(self.message)
    /\ ~IsWhite(self.message[1])
    /\ ~HasSuffix(result.line)
    /\ result.line = SubSeq(self.message, 1, Len(self.message) - 1)

\* C5: whenever the breaking flag is set, the string the resolver returns
\* contains the boom glyph.
C5_BreakingHasBoom ==
    (pc = "fmt_compose" /\ cc.breaking) => "1F4A5" \in GlyphsOf(emoji)

C5_Witness ==
    /\ pc = "fmt_compose"
    /\ cc.breaking
    /\ cc.type = <<"zzz">>
    /\ cc.scope = <<"api">>
    /\ emoji = <<"1F4A5">>

\* C6: no emoji is shown more than once in the string the resolver returns,
\* and the string is empty exactly when no step resolved a glyph.
C6_NoGlyphTwice ==
    pc = "fmt_compose" =>
        /\ \A a, b \in 1..Len(emoji) :
              (a # b /\ emoji[a] # SP /\ emoji[b] # SP)
                  => Rendered(emoji[a]) # Rendered(emoji[b])
        /\ emoji = <<>> <=>
              EmojiSet(cc.type, cc.scope, OtherOf(cc.description), cc.breaking, extra) = {}

\* The first commit whose span rounding fails, or 0
FirstBad ==
    IF \E k \in 1..Len(commits) : ~commits[k].spanOk
    THEN CHOOSE k \in 1..Len(commits) :
            ~commits[k].spanOk /\ \A j \in 1..(k - 1) : commits[j].spanOk
    ELSE 0

\* C7: format returns an error exactly when the span rounding fails; when
\* it fails for the k-th commit, main ends with an error, having printed the
\* heading, its blank line and the bullets of commits 1..k-1 only: no bullet
\* of commit k or of a later one, and no trailing blank line.
C7_SpanFailureAborts ==
    /\ pc = "fmt_ret" => (result.state = "err" <=> ~self.spanOk)
    /\ \A a \in 1..Len(out) :
          out[a].kind = "bullet" => \A j \in 1..out[a].id : commits[j].spanOk
    /\ (pc = "done" /\ FirstBad > 0) =>
          /\ exit = "error"
          /\ Len(out) = FirstBad + 1
          /\ \A j \in 1..(FirstBad - 1) : out[2 + j].kind = "bullet" /\ out[2 + j].id = j
          /\ \A a \in 3..Len(out) : out[a].kind # "blank"

C7_Witness ==
    /\ pc = "done"
    /\ exit = "error"
    /\ Len(commits) = MaxCommits
    /\ FirstBad = 1
    /\ \A k \in 2..Len(commits) : commits[k].spanOk
    /\ out = <<Heading, Blank>>

\* C8, as claimed: a successful run on a non-empty sequence prints a blank
\* line, the heading, a blank line, one bullet per commit in source order and
\* a trailing blank line; on an empty sequence it prints nothing.
C8_LeadingBlankLine ==
    (pc = "done" /\ exit = "ok") =>
        IF Len(commits) = 0 THEN out = <<>>
        ELSE /\ Len(out) = Len(commits) + 4
             /\ out[1] = Blank
             /\ out[2] = Heading
             /\ out[3] = Blank
             /\ \A j \in 1..Len(commits) : out[3 + j].kind = "bullet" /\ out[3 + j].id = j
             /\ out[Len(out)] = Blank

\* C8, amended: a successful run on a non-empty sequence prints the heading,
\* a blank line, one bullet per commit in source order and a trailing blank
\* line; on an empty sequence it prints nothing.
C8_OutputShape ==
    (pc = "done" /\ exit = "ok") =>
        IF Len(commits) = 0 THEN out = <<>>
        ELSE /\ Len(out) = Len(commits) + 3
             /\ out[1] = Heading
             /\ out[2] = Blank
             /\ \A j \in 1..Len(commits) : out[2 + j].kind = "bullet" /\ out[2 + j].id = j
             /\ out[Len(out)] = Blank

C8_Witness ==
    /\ pc = "done"
    /\ exit = "ok"
    /\ Len(commits) = MaxCommits
    /\ commits[1].message # commits[2].message
    /\ Len(out) = MaxCommits + 3
    /\ out[3].id = 1
    /\ out[4].id = 2
    /\ out[3].text # out[4].text

\* C9: the line a successful format returns holds no line feed and neither
\* begins nor ends with whitespace.
C9_SingleTrimmedLine ==
    (pc = "fmt_ret" /\ result.state = "ok") =>
        /\ LF \notin Range(result.line)
        /\ result.line # <<>> =>
              (~IsWhite(result.line[1]) /\ ~IsWhite(result.line[Len(result.line)]))

\* C10: a message that parses and resolves a glyph keeps its time suffix
\* however many body and footer lines follow the header: the description
\* holds no line break, so the composed text is one line; only a
\* raw-fallback message can lose the suffix.
C10_ConventionalKeepsSuffix ==
    /\ (pc = "fmt_ret" /\ result.state = "ok" /\ cc.ok /\ emoji # <<>>) =>
          /\ EndsWith(result.line, TimeSuffix)
          /\ LF \notin Range(cc.description)
          /\ CR \notin Range(cc.description)
    /\ (pc = "fmt_ret" /\ result.state = "ok" /\ ~HasSuffix(result.line)) => RawFallback

C10_Witness ==
    /\ pc = "fmt_ret"
    /\ result.state = "ok"
    /\ cc.ok
    /\ emoji # <<>>
    /\ Len(LinesOf(self.message)) >= MaxBodyLines + 2
    /\ "body" \in Range(self.message)
    /\ EndsWith(result.line, TimeSuffix)

============================================================================
